---- MODULE Spec2Model ----
(***************************************************************************)
(* Model of curseforge_key_extractor.py: one ranged HTTP GET, zlib         *)
(* decompression of the body, a search for the marker "cfCoreApiKey":" and *)
(* the closing quote, UTF-8 decoding of the bytes in between, and the exit *)
(* code chosen by the __main__ block.                                      *)
(*                                                                         *)
(* Bytes are integers 0..255, a bytes object is a sequence of them, and a  *)
(* str produced by bytes.decode is the sequence of its code points.        *)
(* Indices keep Python's 0-based convention: Python's V[i] is V[i+1] here. *)
(***************************************************************************)
EXTENDS Integers, Sequences, FiniteSets, TLC

(***************************************************************************)
(* Bounds of the explored inputs.                                          *)
(***************************************************************************)
MaxChunks == 3
MaxCorruptChunks == 1
MaxRuns == 2
MaxRedirects == 2

(***************************************************************************)
(* Module-level constants of the script (lines 5-7) and literals of E.     *)
(***************************************************************************)
URL == "https://curseforge.overwolf.com/electron/linux/CurseForge-0.198.1-21.AppImage"
OFFSET == 82926761
LENGTH == 84196
TIMEOUT == 30
\* requests follows redirects (allow_redirects defaults to True) up to
\* Session.max_redirects
RedirectLimit == 30
\* G = b'"cfCoreApiKey":"'
G == <<34, 99, 102, 67, 111, 114, 101, 65, 112, 105, 75, 101, 121, 34, 58, 34>>
\* b'"'
QUOTE == <<34>>
\* value of a local name of E that has not been assigned yet
Unbound == -2
\* Python's None, and a value v that is not None
None == <<>>
Some(v) == <<v>>

(***************************************************************************)
(* str(int) as used by the f-strings.                                      *)
(***************************************************************************)
Digit == <<"0", "1", "2", "3", "4", "5", "6", "7", "8", "9">>

RECURSIVE ToDec(_)
ToDec(n) == IF n < 10 THEN Digit[n + 1]
            ELSE ToDec(n \div 10) \o Digit[(n % 10) + 1]

\* '%0*x' % (w, n): n in w lower-case hexadecimal digits
HexDigit == <<"0", "1", "2", "3", "4", "5", "6", "7", "8", "9",
              "a", "b", "c", "d", "e", "f">>

RECURSIVE ToHex(_, _)
ToHex(n, w) == IF w = 0 THEN ""
               ELSE ToHex(n \div 16, w - 1) \o HexDigit[(n % 16) + 1]

(***************************************************************************)
(* bytes.find(sub, start): lowest 0-based index i >= start such that       *)
(* V[i:i+len(sub)] == sub, or -1.                                          *)
(***************************************************************************)
MatchAt(buf, sub, i) ==
    /\ i >= 0
    /\ i + Len(sub) <= Len(buf)
    /\ \A k \in 1..Len(sub) : buf[i + k] = sub[k]

RECURSIVE FindFrom(_, _, _)
FindFrom(buf, sub, i) ==
    IF i + Len(sub) > Len(buf) THEN -1
    ELSE IF MatchAt(buf, sub, i) THEN i
    ELSE FindFrom(buf, sub, i + 1)

\* Variant: the highest index instead of the lowest (rfind for find).
FindLast(buf, sub, start) ==
    LET hits == {i \in start..Len(buf) : MatchAt(buf, sub, i)}
    IN  IF hits = {} THEN -1
        ELSE CHOOSE i \in hits : \A j \in hits : j <= i

Find(buf, sub, start) == FindFrom(buf, sub, start)

\* buf[lo:hi] for 0 <= lo and 0 <= hi
Slice(buf, lo, hi) ==
    LET h == IF hi > Len(buf) THEN Len(buf) ELSE hi
    IN  IF lo >= h THEN <<>> ELSE SubSeq(buf, lo + 1, h)

(***************************************************************************)
(* bytes.decode('utf-8'), strict: the code points, or a UnicodeDecodeError.*)
(***************************************************************************)
IsCont(b) == b >= 128 /\ b <= 191

\* number of bytes of the sequence that starts at 1-based position i, 0 if
\* no well-formed sequence starts there
Utf8Width(buf, i) ==
    LET b0 == buf[i]
        has(k) == i + k <= Len(buf)
        b(k) == buf[i + k]
    IN  IF b0 < 128 THEN 1
        ELSE IF b0 >= 194 /\ b0 <= 223
             THEN IF has(1) /\ IsCont(b(1)) THEN 2 ELSE 0
        ELSE IF b0 >= 224 /\ b0 <= 239
             THEN IF /\ has(2)
                     /\ IsCont(b(1))
                     /\ IsCont(b(2))
                     /\ (b0 = 224 => b(1) >= 160)
                     /\ (b0 = 237 => b(1) <= 159)
                  THEN 3 ELSE 0
        ELSE IF b0 >= 240 /\ b0 <= 244
             THEN IF /\ has(3)
                     /\ IsCont(b(1))
                     /\ IsCont(b(2))
                     /\ IsCont(b(3))
                     /\ (b0 = 240 => b(1) >= 144)
                     /\ (b0 = 244 => b(1) <= 143)
                  THEN 4 ELSE 0
        ELSE 0

Utf8CodePoint(buf, i, w) ==
    IF w = 1 THEN buf[i]
    ELSE IF w = 2 THEN (buf[i] - 192) * 64 + (buf[i + 1] - 128)
    ELSE IF w = 3 THEN (buf[i] - 224) * 4096 + (buf[i + 1] - 128) * 64
                       + (buf[i + 2] - 128)
    ELSE (buf[i] - 240) * 262144 + (buf[i + 1] - 128) * 4096
         + (buf[i + 2] - 128) * 64 + (buf[i + 3] - 128)

\* the bytes the decoder reports when no well-formed sequence starts at
\* position i, and why: n bytes from i on, with the reason
Utf8Fault(buf, i) ==
    LET b0 == buf[i]
        left == Len(buf) - i + 1
        b(k) == buf[i + k]
        badSecond == \/ ~IsCont(b(1))
                     \/ b0 = 224 /\ b(1) < 160
                     \/ b0 = 237 /\ b(1) >= 160
                     \/ b0 = 240 /\ b(1) < 144
                     \/ b0 = 244 /\ b(1) >= 144
    IN  IF b0 < 194 \/ b0 > 244
        THEN [n |-> 1, reason |-> "invalid start byte"]
        ELSE IF left < 2
        THEN [n |-> left, reason |-> "unexpected end of data"]
        ELSE IF badSecond
        THEN [n |-> 1, reason |-> "invalid continuation byte"]
        ELSE IF left < 3
        THEN [n |-> left, reason |-> "unexpected end of data"]
        ELSE IF ~IsCont(b(2))
        THEN [n |-> 2, reason |-> "invalid continuation byte"]
        ELSE IF left < 4
        THEN [n |-> left, reason |-> "unexpected end of data"]
        ELSE [n |-> 3, reason |-> "invalid continuation byte"]

\* str(UnicodeDecodeError) for the fault f at position i
DecodeErrorText(buf, i, f) ==
    "'utf-8' codec can't decode "
    \o (IF f.n = 1
        THEN "byte 0x" \o ToHex(buf[i], 2) \o " in position " \o ToDec(i - 1)
        ELSE "bytes in position " \o ToDec(i - 1) \o "-" \o ToDec(i + f.n - 2))
    \o ": " \o f.reason

RECURSIVE Utf8From(_, _, _)
Utf8From(buf, i, acc) ==
    IF i > Len(buf) THEN [ok |-> TRUE, str |-> acc, err |-> ""]
    ELSE LET w == Utf8Width(buf, i)
         IN  IF w = 0
             THEN [ok |-> FALSE, str |-> <<>>,
                   err |-> DecodeErrorText(buf, i, Utf8Fault(buf, i))]
             ELSE Utf8From(buf, i + w, Append(acc, Utf8CodePoint(buf, i, w)))

Utf8Decode(buf) == Utf8From(buf, 1, <<>>)

(***************************************************************************)
(* sys.stdout.write(s) for a str s: the text layer encodes s with the      *)
(* encoding of standard output, strictly, before it writes anything.       *)
(* UTF-8 encodes every str that bytes.decode produced; ASCII fails at the  *)
(* first run of code points above 127.  skip is the number of ASCII        *)
(* characters in front of s in the written line.                           *)
(***************************************************************************)
Encodings == {"utf-8", "ascii"}

\* the character c as str(UnicodeEncodeError) shows it
CharRepr(c) ==
    IF c < 256 THEN "'\\x" \o ToHex(c, 2) \o "'"
    ELSE IF c < 65536 THEN "'\\u" \o ToHex(c, 4) \o "'"
    ELSE "'\\U" \o ToHex(c, 8) \o "'"

NonAscii(s) == {k \in 1..Len(s) : s[k] >= 128}

\* 1-based index of the last character of the run of non-ASCII characters
\* that starts at index k
RECURSIVE RunEnd(_, _)
RunEnd(s, k) == IF k < Len(s) /\ s[k + 1] >= 128 THEN RunEnd(s, k + 1) ELSE k

EncodeErrorText(s, skip, from, to) ==
    "'ascii' codec can't encode "
    \o (IF from = to
        THEN "character " \o CharRepr(s[from]) \o " in position "
             \o ToDec(skip + from - 1)
        ELSE "characters in position " \o ToDec(skip + from - 1) \o "-"
             \o ToDec(skip + to - 1))
    \o ": ordinal not in range(128)"

AsciiFault(s, skip, from) == EncodeErrorText(s, skip, from, RunEnd(s, from))

Encode(encoding, s, skip) ==
    IF encoding = "utf-8" \/ NonAscii(s) = {}
    THEN [ok |-> TRUE, err |-> ""]
    ELSE [ok |-> FALSE,
          err |-> AsciiFault(s, skip,
                             CHOOSE k \in NonAscii(s) : \A j \in NonAscii(s) : k <= j)]

(***************************************************************************)
(* zlib.decompress(data): a zlib stream (RFC 1950) is a two-byte header, a *)
(* sequence of deflate blocks (RFC 1951: stored, fixed Huffman, dynamic    *)
(* Huffman) and the Adler-32 of the output.  Bytes after the trailer are   *)
(* ignored, as zlib.decompress does.  The result is the output, or the     *)
(* zlib.error.  Bits are numbered from 0, bit k being bit k % 8 (least     *)
(* significant first) of byte k \div 8.                                    *)
(***************************************************************************)
\* Adler-32 of buf as the four bytes of its big-endian encoding (the sum
\* b * 65536 + a itself does not fit TLC's 32-bit integers)
RECURSIVE AdlerFrom(_, _, _, _)
AdlerFrom(buf, i, a, b) ==
    IF i > Len(buf) THEN <<b \div 256, b % 256, a \div 256, a % 256>>
    ELSE LET a2 == (a + buf[i]) % 65521
         IN  AdlerFrom(buf, i + 1, a2, (b + a2) % 65521)

Adler32(buf) == AdlerFrom(buf, 1, 1, 0)

ZFail(msg) == [ok |-> FALSE, data |-> <<>>, err |-> msg]
Truncated == "Error -5 while decompressing data: incomplete or truncated stream"
DataError(msg) == "Error -3 while decompressing data: " \o msg

Pow2 == <<1, 2, 4, 8, 16, 32, 64, 128, 256, 512, 1024, 2048, 4096, 8192>>
NBits(data) == 8 * Len(data)
BitAt(data, k) == (data[(k \div 8) + 1] \div Pow2[(k % 8) + 1]) % 2

\* the n bits from bit k on, as a number, first bit least significant
RECURSIVE BitsVal(_, _, _)
BitsVal(data, k, n) ==
    IF n = 0 THEN 0 ELSE BitAt(data, k) + 2 * BitsVal(data, k + 1, n - 1)

\* A Huffman code is the sequence of the code lengths of its symbols
\* (symbol s has length lens[s + 1], 0 = unused); the codes are canonical.
CountLen(lens, len) == Cardinality({s \in 1..Len(lens) : lens[s] = len})

\* the k-th symbol, from 0, among those of length len
KthWithLen(lens, len, k) ==
    LET S == {s \in 0..(Len(lens) - 1) : lens[s + 1] = len}
    IN  CHOOSE s \in S : Cardinality({t \in S : t < s}) = k

\* code space left after the lengths len..15: 0 complete, > 0 incomplete,
\* < 0 over-subscribed
RECURSIVE LeftFrom(_, _, _)
LeftFrom(lens, len, left) ==
    IF left < 0 \/ len > 15 THEN left
    ELSE LeftFrom(lens, len + 1, 2 * left - CountLen(lens, len))

CodeLeft(lens) == LeftFrom(lens, 1, 1)
NoCodes(lens) == \A s \in 1..Len(lens) : lens[s] = 0
MaxLenIsOne(lens) == \A s \in 1..Len(lens) : lens[s] <= 1
\* a literal/length or distance code zlib accepts: complete, or empty, or a
\* single code of length 1
UsableCode(lens) ==
    \/ NoCodes(lens)
    \/ CodeLeft(lens) = 0
    \/ (CodeLeft(lens) > 0 /\ MaxLenIsOne(lens))

\* Decode one symbol from bit pos on, trying the lengths len, len + 1, ...
\* The bits read so far are no code when no code is longer than they are,
\* which happens only in the incomplete codes zlib accepts (the empty code
\* and the single code of length 1): zlib then reports msg.
RECURSIVE HuffDecode(_, _, _, _, _, _, _)
HuffDecode(data, pos, lens, len, code, first, msg) ==
    IF pos >= NBits(data)
    THEN [ok |-> FALSE, sym |-> 0, pos |-> pos, err |-> Truncated]
    ELSE LET c == code + BitAt(data, pos)
             cnt == CountLen(lens, len)
         IN  IF c - cnt < first
             THEN [ok |-> TRUE, sym |-> KthWithLen(lens, len, c - first),
                   pos |-> pos + 1, err |-> ""]
             ELSE IF \A s \in 1..Len(lens) : lens[s] <= len
                  THEN [ok |-> FALSE, sym |-> 0, pos |-> pos + 1,
                        err |-> DataError(msg)]
             ELSE HuffDecode(data, pos + 1, lens, len + 1, 2 * c,
                             2 * (first + cnt), msg)

Symbol(data, pos, lens, msg) == HuffDecode(data, pos, lens, 1, 0, 0, msg)

LengthBase == <<3, 4, 5, 6, 7, 8, 9, 10, 11, 13, 15, 17, 19, 23, 27, 31, 35,
                43, 51, 59, 67, 83, 99, 115, 131, 163, 195, 227, 258>>
LengthExtra == <<0, 0, 0, 0, 0, 0, 0, 0, 1, 1, 1, 1, 2, 2, 2, 2, 3, 3, 3, 3,
                 4, 4, 4, 4, 5, 5, 5, 5, 0>>
DistBase == <<1, 2, 3, 4, 5, 7, 9, 13, 17, 25, 33, 49, 65, 97, 129, 193, 257,
              385, 513, 769, 1025, 1537, 2049, 3073, 4097, 6145, 8193, 12289,
              16385, 24577>>
DistExtra == <<0, 0, 0, 0, 1, 1, 2, 2, 3, 3, 4, 4, 5, 5, 6, 6, 7, 7, 8, 8, 9,
               9, 10, 10, 11, 11, 12, 12, 13, 13>>

\* out followed by n bytes copied from dist bytes back, one at a time: when
\* n > dist the last dist bytes of out repeat
CopyBack(out, dist, n) ==
    out \o [k \in 1..n |-> out[Len(out) - dist + 1 + ((k - 1) % dist)]]

BFail(pos, msg) == [ok |-> FALSE, pos |-> pos, out |-> <<>>, err |-> msg]

(***************************************************************************)
(* The symbols of one Huffman-coded block, from bit pos up to its          *)
(* end-of-block symbol, with the literal/length code ll and the distance   *)
(* code dl.  Each step is an operator of its own that receives what the    *)
(* step before it decoded.                                                 *)
(***************************************************************************)
RECURSIVE Codes(_, _, _, _, _)

\* copy len bytes from dist back, then go on at bit pos
CodesCopy(data, pos, out, ll, dl, len, dist) ==
    IF dist > Len(out)
    THEN BFail(pos, DataError("invalid distance too far back"))
    ELSE Codes(data, pos, CopyBack(out, dist, len), ll, dl)

\* d is the decoded distance symbol of a match of length len
CodesDist(data, out, ll, dl, len, d) ==
    IF ~d.ok THEN BFail(d.pos, d.err)
    ELSE IF d.sym > 29 THEN BFail(d.pos, DataError("invalid distance code"))
    ELSE IF d.pos + DistExtra[d.sym + 1] > NBits(data)
         THEN BFail(d.pos, Truncated)
    ELSE CodesCopy(data, d.pos + DistExtra[d.sym + 1], out, ll, dl, len,
                   DistBase[d.sym + 1]
                   + BitsVal(data, d.pos, DistExtra[d.sym + 1]))

\* s is a decoded length symbol, 257..285
CodesLength(data, out, ll, dl, s) ==
    IF s.pos + LengthExtra[s.sym - 256] > NBits(data)
    THEN BFail(s.pos, Truncated)
    ELSE CodesDist(data, out, ll, dl,
                   LengthBase[s.sym - 256]
                   + BitsVal(data, s.pos, LengthExtra[s.sym - 256]),
                   Symbol(data, s.pos + LengthExtra[s.sym - 256], dl,
                          "invalid distance code"))

\* s is the decoded literal/length symbol
CodesSym(data, out, ll, dl, s) ==
    IF ~s.ok THEN BFail(s.pos, s.err)
    ELSE IF s.sym < 256 THEN Codes(data, s.pos, Append(out, s.sym), ll, dl)
    ELSE IF s.sym = 256
         THEN [ok |-> TRUE, pos |-> s.pos, out |-> out, err |-> ""]
    ELSE IF s.sym > 285
         THEN BFail(s.pos, DataError("invalid literal/length code"))
    ELSE CodesLength(data, out, ll, dl, s)

Codes(data, pos, out, ll, dl) ==
    CodesSym(data, out, ll, dl,
             Symbol(data, pos, ll, "invalid literal/length code"))

FixedLitLen ==
    [s \in 1..288 |-> IF s <= 144 THEN 8
                      ELSE IF s <= 256 THEN 9
                      ELSE IF s <= 280 THEN 7 ELSE 8]
\* 32 codes of 5 bits; the symbols 30 and 31 decode and are then rejected
FixedDist == [s \in 1..32 |-> 5]

\* order in which the lengths of the code length code are stored
ClOrder == <<16, 17, 18, 0, 8, 7, 9, 6, 10, 5, 11, 4, 12, 3, 13, 2, 14, 1, 15>>

\* the first n code length code lengths, 3 bits each from bit pos on
ClLens(data, pos, n) ==
    [s \in 1..19 |->
        LET at == {k \in 1..n : ClOrder[k] = s - 1}
        IN  IF at = {} THEN 0
            ELSE BitsVal(data, pos + 3 * ((CHOOSE k \in at : TRUE) - 1), 3)]

(***************************************************************************)
(* The total code lengths of the literal/length and distance codes, run    *)
(* length coded with the code length code cl.                              *)
(***************************************************************************)
RECURSIVE ReadLens(_, _, _, _, _)

\* rep more lengths val, then go on at bit pos
ReadLensRepeat(data, pos, cl, total, lens, val, rep) ==
    IF Len(lens) + rep > total
    THEN BFail(pos, DataError("invalid bit length repeat"))
    ELSE ReadLens(data, pos, cl, total, lens \o [k \in 1..rep |-> val])

\* s is the decoded code length symbol
ReadLensSym(data, cl, total, lens, s) ==
    IF ~s.ok THEN BFail(s.pos, s.err)
    ELSE IF s.sym < 16
         THEN ReadLens(data, s.pos, cl, total, Append(lens, s.sym))
    ELSE IF s.sym = 16
         THEN IF s.pos + 2 > NBits(data) THEN BFail(s.pos, Truncated)
              ELSE IF lens = <<>>
                   THEN BFail(s.pos, DataError("invalid bit length repeat"))
              ELSE ReadLensRepeat(data, s.pos + 2, cl, total, lens,
                                  lens[Len(lens)], 3 + BitsVal(data, s.pos, 2))
    ELSE IF s.sym = 17
         THEN IF s.pos + 3 > NBits(data) THEN BFail(s.pos, Truncated)
              ELSE ReadLensRepeat(data, s.pos + 3, cl, total, lens, 0,
                                  3 + BitsVal(data, s.pos, 3))
    ELSE IF s.pos + 7 > NBits(data) THEN BFail(s.pos, Truncated)
         ELSE ReadLensRepeat(data, s.pos + 7, cl, total, lens, 0,
                             11 + BitsVal(data, s.pos, 7))

ReadLens(data, pos, cl, total, lens) ==
    IF Len(lens) = total
    THEN [ok |-> TRUE, pos |-> pos, out |-> lens, err |-> ""]
    ELSE ReadLensSym(data, cl, total, lens,
                     Symbol(data, pos, cl, "invalid code lengths set"))

(***************************************************************************)
(* A dynamic Huffman block from the bit after its 3-bit header.            *)
(***************************************************************************)
\* the block's symbols, with the codes ll and dl read from its header
DynamicTables(data, pos, out, ll, dl) ==
    IF ~UsableCode(ll)
    THEN BFail(pos, DataError("invalid literal/lengths set"))
    ELSE IF ~UsableCode(dl)
         THEN BFail(pos, DataError("invalid distances set"))
    ELSE Codes(data, pos, out, ll, dl)

\* r is the result of reading the nlen + ndist code lengths
DynamicCodes(data, out, nlen, ndist, r) ==
    IF ~r.ok THEN r
    ELSE IF r.out[257] = 0
         THEN BFail(r.pos, DataError("invalid code -- missing end-of-block"))
    ELSE DynamicTables(data, r.pos, out, SubSeq(r.out, 1, nlen),
                       SubSeq(r.out, nlen + 1, nlen + ndist))

\* with the empty code length code every length is read as 0 from one bit
ZeroLens(data, pos, total) ==
    IF pos + total > NBits(data) THEN BFail(pos, Truncated)
    ELSE [ok |-> TRUE, pos |-> pos + total, out |-> [k \in 1..total |-> 0],
          err |-> ""]

\* cl is the code length code, pos the bit after its lengths; zlib accepts
\* a complete code and the empty one
DynamicCl(data, pos, out, nlen, ndist, cl) ==
    IF NoCodes(cl)
    THEN DynamicCodes(data, out, nlen, ndist,
                      ZeroLens(data, pos, nlen + ndist))
    ELSE IF CodeLeft(cl) # 0
         THEN BFail(pos, DataError("invalid code lengths set"))
    ELSE DynamicCodes(data, out, nlen, ndist,
                      ReadLens(data, pos, cl, nlen + ndist, <<>>))

DynamicLens(data, pos, out, nlen, ndist, ncode) ==
    IF nlen > 286 \/ ndist > 30
    THEN BFail(pos, DataError("too many length or distance symbols"))
    ELSE IF pos + 14 + 3 * ncode > NBits(data) THEN BFail(pos, Truncated)
    ELSE DynamicCl(data, pos + 14 + 3 * ncode, out, nlen, ndist,
                   ClLens(data, pos + 14, ncode))

Dynamic(data, pos, out) ==
    IF pos + 14 > NBits(data) THEN BFail(pos, Truncated)
    ELSE DynamicLens(data, pos, out, BitsVal(data, pos, 5) + 257,
                     BitsVal(data, pos + 5, 5) + 1,
                     BitsVal(data, pos + 10, 4) + 4)

\* a stored block from the bit after its 3-bit header: skip to the next
\* byte, LEN, NLEN, LEN bytes
Stored(data, pos, out) ==
    LET i == (pos + 7) \div 8
    IN  IF i + 4 > Len(data) THEN BFail(pos, Truncated)
        ELSE
        LET len == data[i + 1] + 256 * data[i + 2]
            nlen == data[i + 3] + 256 * data[i + 4]
        IN  IF len + nlen # 65535
            THEN BFail(pos, DataError("invalid stored block lengths"))
            ELSE IF i + 4 + len > Len(data) THEN BFail(pos, Truncated)
            ELSE [ok |-> TRUE, pos |-> 8 * (i + 4 + len),
                  out |-> out \o SubSeq(data, i + 5, i + 4 + len),
                  err |-> ""]

\* the block of type btype whose contents start at bit pos
Block(data, pos, out, btype) ==
    IF btype = 0 THEN Stored(data, pos, out)
    ELSE IF btype = 1 THEN Codes(data, pos, out, FixedLitLen, FixedDist)
    ELSE IF btype = 2 THEN Dynamic(data, pos, out)
    ELSE BFail(pos, DataError("invalid block type"))

\* the Adler-32 trailer at the 1-based byte position j
Trailer(data, j, out) ==
    IF j + 3 > Len(data) THEN ZFail(Truncated)
    ELSE IF SubSeq(data, j, j + 3) # Adler32(out)
         THEN ZFail(DataError("incorrect data check"))
    ELSE [ok |-> TRUE, data |-> out, err |-> ""]

\* the blocks from bit pos on, then the trailer
RECURSIVE InflateFrom(_, _, _)

\* blk is the decoded block, bfinal its BFINAL bit
InflateNext(data, bfinal, blk) ==
    IF ~blk.ok THEN ZFail(blk.err)
    ELSE IF bfinal = 0 THEN InflateFrom(data, blk.pos, blk.out)
    ELSE Trailer(data, ((blk.pos + 7) \div 8) + 1, blk.out)

InflateFrom(data, pos, out) ==
    IF pos + 3 > NBits(data) THEN ZFail(Truncated)
    ELSE InflateNext(data, BitAt(data, pos),
                     Block(data, pos + 3, out, BitsVal(data, pos + 1, 2)))

Decompress(data) ==
    IF Len(data) < 2 THEN ZFail(Truncated)
    ELSE IF (data[1] * 256 + data[2]) % 31 # 0
         THEN ZFail(DataError("incorrect header check"))
    ELSE IF data[1] % 16 # 8
         THEN ZFail(DataError("unknown compression method"))
    ELSE IF data[1] \div 16 > 7 THEN ZFail(DataError("invalid window size"))
    ELSE IF (data[2] \div 32) % 2 = 1
         THEN IF Len(data) < 6 THEN ZFail(Truncated)
              ELSE ZFail("Error 2 while decompressing data")
    ELSE InflateFrom(data, 16, <<>>)

(***************************************************************************)
(* The remote server.  StoredStream(p) is the zlib stream a server sends   *)
(* for the payload p as one final stored block; the other bodies are       *)
(* damaged streams, raw payloads and the empty body.                       *)
(***************************************************************************)
StoredStream(p) ==
    LET n == Len(p)
    IN  <<120, 1, 1, n % 256, n \div 256, 255 - (n % 256), 255 - (n \div 256)>>
        \o p
        \o Adler32(p)

DropLast(b) == SubSeq(b, 1, Len(b) - 1)
FlipLast(b) == DropLast(b) \o <<(b[Len(b)] + 1) % 256>>
BadHeader(b) == <<120, 2>> \o SubSeq(b, 3, Len(b))

\* pieces the explored payloads are made of: the marker, a quote, 'a', a
\* space, a backslash, U+00E9 in UTF-8, and a byte that is never valid UTF-8
Chunks == {G, QUOTE, <<97>>, <<32>>, <<92>>, <<195, 169>>, <<255>>}

RECURSIVE PayloadsOf(_)
PayloadsOf(n) ==
    IF n = 0 THEN {<<>>}
    ELSE LET shorter == PayloadsOf(n - 1)
         IN  shorter \cup {p \o c : p \in shorter, c \in Chunks}

Payloads == PayloadsOf(MaxChunks)
SmallPayloads == PayloadsOf(MaxCorruptChunks) \cup {G \o <<97>> \o QUOTE}

\* streams zlib.compress emits: fixed Huffman blocks for "cfCoreApiKey":"a",
\* "cfCoreApiKey":"", a" and "cfCoreApiKey":"\"cfCoreApiKey":" (the last with a
\* back reference), and a dynamic Huffman block for the marker, 18 a's and a
\* quote
DeflatedBodies ==
    { <<120, 156, 83, 74, 78, 115, 206, 47, 74, 117, 44, 200, 244, 78, 173, 84,
        178, 82, 74, 84, 2, 0, 57, 151, 5, 185>>,
      <<120, 156, 83, 74, 78, 115, 206, 47, 74, 117, 44, 200, 244, 78, 173, 84,
        178, 82, 82, 2, 0, 51, 159, 5, 88>>,
      <<120, 156, 75, 84, 2, 0, 0, 230, 0, 132>>,
      <<120, 156, 83, 74, 78, 115, 206, 47, 74, 117, 44, 200, 244, 78, 173, 84,
        178, 82, 138, 81, 66, 19, 0, 0, 187, 48, 10, 199>>,
      <<120, 1, 5, 193, 177, 13, 0, 16, 16, 0, 192, 93, 126, 12, 157, 40, 77,
        113, 145, 151, 168, 136, 206, 246, 238, 98, 204, 182, 111, 214, 179,
        122, 190, 40, 1, 0, 64, 124, 217, 8, 12, 42>> }

GoodBodies == {StoredStream(p) : p \in Payloads} \cup DeflatedBodies
BadBodies ==
    {<<>>}
    \cup SmallPayloads
    \cup {DropLast(StoredStream(p)) : p \in SmallPayloads}
    \cup {FlipLast(StoredStream(p)) : p \in SmallPayloads}
    \cup {BadHeader(StoredStream(p)) : p \in SmallPayloads}
    \cup {StoredStream(p) \o <<0>> : p \in SmallPayloads}
    \cup {DropLast(b) : b \in DeflatedBodies}
    \cup {FlipLast(b) : b \in DeflatedBodies}
SmallBodies == {StoredStream(p) : p \in SmallPayloads} \cup BadBodies

OkStatuses == {200, 206}
OtherStatuses == {203, 204, 302, 304, 399, 400, 404, 500, 599, 600}
\* reason phrases of the status line
Reasons == {"", "Not Found"}

\* exception classes H.get can raise, and requests' class hierarchy
RequestExceptions == {"RequestException", "ConnectionError", "Timeout",
                      "HTTPError", "TooManyRedirects"}
GetRaises == {"ConnectionError", "Timeout", "RuntimeError"}
IsRequestException(cls) == cls \in RequestExceptions

\* What the remote end does with the requests of a run: it answers the
\* first Len(locations) GETs with a redirect (301, 302, 303, 307 or 308 and a
\* Location header, locations[k] being the k-th one, an absolute URL), and
\* the next GET with a response, or the GET fails with an exception.
Response(status, reason, content) ==
    [kind |-> "response", cls |-> "", msg |-> "", status |-> status,
     reason |-> reason, content |-> content, locations |-> <<>>]
Raises(cls, msg) ==
    [kind |-> "raise", cls |-> cls, msg |-> msg, status |-> 0, reason |-> "",
     content |-> <<>>, locations |-> <<>>]
Redirected(o, locs) == [o EXCEPT !.locations = locs]

\* the response object requests.get returns: the last response, with the URL
\* it came from
Received(o, url) ==
    [kind |-> "response", status |-> o.status, reason |-> o.reason,
     content |-> o.content, url |-> url]
NoResponse == [kind |-> "none", status |-> 0, reason |-> "", content |-> <<>>,
               url |-> ""]

HopUrl(k) == "https://cdn.example/hop" \o ToDec(k)
Hops(n) == [k \in 1..n |-> HopUrl(k)]
RedirectCounts == (1..MaxRedirects) \cup {RedirectLimit, RedirectLimit + 1}

DirectOutcomes ==
    {Response(s, "", b) : s \in OkStatuses, b \in GoodBodies \cup BadBodies}
    \cup {Response(s, r, b) : s \in OtherStatuses, r \in Reasons, b \in SmallBodies}
    \cup {Raises(c, "get failed") : c \in GetRaises}

RedirectedOutcomes ==
    {Redirected(o, Hops(n)) :
        o \in {Response(s, "", StoredStream(p)) :
                   s \in {200, 302, 404}, p \in SmallPayloads}
              \cup {Raises(c, "get failed") : c \in GetRaises},
        n \in RedirectCounts}

FetchOutcomes == DirectOutcomes \cup RedirectedOutcomes

(***************************************************************************)
(* State.                                                                  *)
(*   J, D, K     the module globals URL, offset, length                    *)
(*   server      what the remote end does with the request of this run     *)
(*   pc          position in E / __main__                                  *)
(*   L, M, V, N, O, P, Q   the locals of E with the same names             *)
(*   exc         the exception in flight, None if none                     *)
(*   ret         E's return value once it returned: None or Some(str)      *)
(*   exitCode    argument of sys.exit once called                          *)
(*   stdout, stderr   lines printed so far                                 *)
(*   stdoutEncoding   the encoding of the process's standard output        *)
(*   calls       number of calls of requests.get so far                    *)
(*   gets        the HTTP GETs sent so far                                 *)
(*   steps       pipeline steps attempted so far, in order                 *)
(*   runNo, prev number of this run, and the result of the previous run    *)
(***************************************************************************)
VARIABLES J, D, K, server, stdoutEncoding, pc, L, M, V, N, O, P, Q, exc, ret,
          exitCode, stdout, stderr, calls, gets, steps, runNo, prev

vars == <<J, D, K, server, stdoutEncoding, pc, L, M, V, N, O, P, Q, exc, ret,
          exitCode, stdout, stderr, calls, gets, steps, runNo, prev>>

globals == <<J, D, K>>
environment == <<server, stdoutEncoding>>
network == <<calls, gets>>
locals == <<L, M, V, N, O, P, Q>>

\* a printed line: the fixed text of the f-string, the text of its
\* interpolated int or exception, and its interpolated str as code points
Msg(text, detail, arg) == [text |-> text, detail |-> detail, arg |-> arg]
Exc(cls, msg) == [cls |-> cls, msg |-> msg]

FreshRun ==
    /\ pc = "start"
    /\ L = NoResponse
    /\ M = <<>>
    /\ V = <<>>
    /\ N = Unbound
    /\ O = Unbound
    /\ P = Unbound
    /\ Q = <<>>
    /\ exc = None
    /\ ret = None
    /\ exitCode = Unbound
    /\ stdout = <<>>
    /\ stderr = <<>>
    /\ calls = 0
    /\ gets = <<>>
    /\ steps = <<>>

Init ==
    /\ J = URL
    /\ D = OFFSET
    /\ K = LENGTH
    /\ server \in FetchOutcomes
    /\ stdoutEncoding \in Encodings
    /\ FreshRun
    /\ runNo = 1
    /\ prev = None

(***************************************************************************)
(* Line 10, up to the call of requests.get: the two announcements.         *)
(***************************************************************************)
Announce ==
    /\ pc = "start"
    /\ stdout' = stdout
                 \o << Msg("getting curseforge api key from ", J \o "...", <<>>),
                       Msg("requesting bytes ", ToDec(D) \o "-" \o ToDec(D + K)
                           \o "...", <<>>) >>
    /\ pc' = "get"
    /\ UNCHANGED <<globals, environment, locals, exc, ret, exitCode, stderr, network,
                   steps, runNo, prev>>

(***************************************************************************)
(* Line 10: S, T and L = H.get(J, headers=T, timeout=30).  The one call    *)
(* sends a GET to J and, as allow_redirects defaults to True, one more GET *)
(* with the same headers and timeout for every redirect it is answered,    *)
(* until it has followed RedirectLimit of them.  It returns the last       *)
(* response or raises.                                                     *)
(***************************************************************************)
\* Variant: the range ends at the last byte of the slice, off + len - 1.
RangeHeaderLastByte(off, len) ==
    "bytes=" \o ToDec(off) \o "-" \o ToDec(off + len - 1)

RangeHeader(off, len) == "bytes=" \o ToDec(off) \o "-" \o ToDec(off + len)

Request(url, range) == [url |-> url, range |-> range, timeout |-> TIMEOUT]

\* number of redirects the call follows when it is answered n of them
Followed(n) == IF n > RedirectLimit THEN RedirectLimit ELSE n

Get ==
    /\ pc = "get"
    /\ calls' = calls + 1
    /\ gets' = gets
               \o <<Request(J, RangeHeader(D, K))>>
               \o [k \in 1..Followed(Len(server.locations)) |->
                      Request(server.locations[k], RangeHeader(D, K))]
    /\ steps' = Append(steps, "get")
    /\ IF Len(server.locations) > RedirectLimit
       THEN /\ exc' = Some(Exc("TooManyRedirects",
                               "Exceeded " \o ToDec(RedirectLimit) \o " redirects."))
            /\ pc' = "except"
            /\ L' = L
       ELSE IF server.kind = "raise"
       THEN /\ exc' = Some(Exc(server.cls, server.msg))
            /\ pc' = "except"
            /\ L' = L
       ELSE /\ L' = Received(server,
                             IF server.locations = <<>> THEN J
                             ELSE server.locations[Len(server.locations)])
            /\ pc' = "raise_for_status"
            /\ exc' = exc
    /\ UNCHANGED <<globals, environment, M, V, N, O, P, Q, ret, exitCode, stdout,
                   stderr, runNo, prev>>

(***************************************************************************)
(* Line 10: L.raise_for_status() raises HTTPError for 400 <= status < 600, *)
(* with the status, the reason phrase and the URL of L in its text.        *)
(***************************************************************************)
\* Variant: the lower limit of the error statuses is exclusive.
IsErrorStatusAbove400(status) == status > 400 /\ status < 600

IsErrorStatus(status) == status >= 400 /\ status < 600

RaiseForStatus ==
    /\ pc = "raise_for_status"
    /\ IF IsErrorStatus(L.status)
       THEN /\ exc' = Some(Exc("HTTPError",
                      ToDec(L.status)
                      \o (IF L.status < 500 THEN " Client Error: "
                          ELSE " Server Error: ")
                      \o L.reason \o " for url: " \o L.url))
            /\ pc' = "except"
       ELSE /\ exc' = exc
            /\ pc' = "content"
    /\ UNCHANGED <<globals, environment, locals, ret, exitCode, stdout, stderr,
                   network, steps, runNo, prev>>

(***************************************************************************)
(* Line 10: M = L.content and the "downloaded" message.                    *)
(***************************************************************************)
Content ==
    /\ pc = "content"
    /\ M' = L.content
    /\ stdout' = Append(stdout, Msg("downloaded ", ToDec(Len(M'))
                                    \o " bytes (compressed)", <<>>))
    /\ pc' = "decompress"
    /\ UNCHANGED <<globals, environment, L, V, N, O, P, Q, exc, ret, exitCode,
                   stderr, network, steps, runNo, prev>>

(***************************************************************************)
(* Line 11: try: V = I.decompress(M)                                       *)
(***************************************************************************)
\* r is what I.decompress(M) gave: V is bound to the output, or the
\* zlib.error is raised
BindOrRaise(r) ==
    IF r.ok
    THEN /\ V' = r.data
         /\ exc' = exc
         /\ pc' = "find_marker"
    ELSE /\ V' = V
         /\ exc' = Some(Exc("zlib.error", r.err))
         /\ pc' = "except_zlib"

TryDecompress ==
    /\ pc = "decompress"
    /\ steps' = Append(steps, "decompress")
    /\ BindOrRaise(Decompress(M))
    /\ UNCHANGED <<globals, environment, L, M, N, O, P, Q, ret, exitCode, stdout,
                   stderr, network, runNo, prev>>

(***************************************************************************)
(* Line 12: except I.error as C: print to stderr; return                   *)
(***************************************************************************)
\* Variant: the handler prints and falls through instead of returning.
ExceptZlibErrorNoReturn ==
    /\ pc = "except_zlib"
    /\ stderr' = Append(stderr, Msg("decompression error: ", exc[1].msg, <<>>))
    /\ exc' = None
    /\ pc' = "find_marker"
    /\ UNCHANGED <<globals, environment, locals, ret, exitCode, stdout, network, steps,
                   runNo, prev>>

ExceptZlibError ==
    /\ pc = "except_zlib"
    /\ stderr' = Append(stderr, Msg("decompression error: ", exc[1].msg, <<>>))
    /\ exc' = None
    /\ ret' = None
    /\ pc' = "returned"
    /\ UNCHANGED <<globals, environment, locals, exitCode, stdout, network, steps,
                   runNo, prev>>

(***************************************************************************)
(* Line 13: the "decompressed" message and N = V.find(G)                   *)
(***************************************************************************)
FindMarker ==
    /\ pc = "find_marker"
    /\ stdout' = Append(stdout, Msg("decompressed to ", ToDec(Len(V))
                                    \o " bytes", <<>>))
    /\ steps' = Append(steps, "find_marker")
    /\ N' = Find(V, G, 0)
    /\ pc' = "check_marker"
    /\ UNCHANGED <<globals, environment, L, M, V, O, P, Q, exc, ret, exitCode,
                   stderr, network, runNo, prev>>

(***************************************************************************)
(* Line 14: if N == -1: print to stderr; return                            *)
(***************************************************************************)
MarkerMissing ==
    /\ pc = "check_marker"
    /\ N = -1
    /\ stderr' = Append(stderr, Msg("couldnt find string ", "", Utf8Decode(G).str))
    /\ ret' = None
    /\ pc' = "returned"
    /\ UNCHANGED <<globals, environment, locals, exc, exitCode, stdout, network,
                   steps, runNo, prev>>

(***************************************************************************)
(* Line 15: O = N + len(G); P = V.find(b'"', O)                            *)
(***************************************************************************)
\* Variant: the test of line 14 is missing, the search runs with N = -1 too.
FindQuoteUnguarded ==
    /\ pc = "check_marker"
    /\ O' = N + Len(G)
    /\ P' = Find(V, QUOTE, O')
    /\ steps' = Append(steps, "find_quote")
    /\ pc' = "check_quote"
    /\ UNCHANGED <<globals, environment, L, M, V, N, Q, exc, ret, exitCode, stdout,
                   stderr, network, runNo, prev>>

\* Variant: the quote is searched from the start of the marker, not its end.
FindQuoteFromMarkerStart ==
    /\ pc = "check_marker"
    /\ N # -1
    /\ O' = N + Len(G)
    /\ P' = Find(V, QUOTE, N)
    /\ steps' = Append(steps, "find_quote")
    /\ pc' = "check_quote"
    /\ UNCHANGED <<globals, environment, L, M, V, N, Q, exc, ret, exitCode, stdout,
                   stderr, network, runNo, prev>>

FindQuote ==
    /\ pc = "check_marker"
    /\ N # -1
    /\ O' = N + Len(G)
    /\ P' = Find(V, QUOTE, O')
    /\ steps' = Append(steps, "find_quote")
    /\ pc' = "check_quote"
    /\ UNCHANGED <<globals, environment, L, M, V, N, Q, exc, ret, exitCode, stdout,
                   stderr, network, runNo, prev>>

(***************************************************************************)
(* Line 16: if P == -1: print to stderr; return                            *)
(***************************************************************************)
NoClosingQuote ==
    /\ pc = "check_quote"
    /\ P = -1
    /\ stderr' = Append(stderr, Msg("no closing quote", "", <<>>))
    /\ ret' = None
    /\ pc' = "returned"
    /\ UNCHANGED <<globals, environment, locals, exc, exitCode, stdout, network,
                   steps, runNo, prev>>

(***************************************************************************)
(* Line 17: Q = V[O:P].decode('utf-8'); print "api key"; return Q.  The    *)
(* decoding raises UnicodeDecodeError; the print, which is inside the try, *)
(* raises UnicodeEncodeError when standard output cannot encode the line,  *)
(* and then nothing of the line is written.                                *)
(***************************************************************************)
\* r is what V[O:P].decode('utf-8') gave
PrintAndReturn(r) ==
    IF ~r.ok
    THEN /\ Q' = Q
         /\ stdout' = stdout
         /\ ret' = ret
         /\ exc' = Some(Exc("UnicodeDecodeError", r.err))
         /\ pc' = "except"
    \* 9 = len("api key: ")
    ELSE IF ~Encode(stdoutEncoding, r.str, 9).ok
    THEN /\ Q' = r.str
         /\ stdout' = stdout
         /\ ret' = ret
         /\ exc' = Some(Exc("UnicodeEncodeError",
                            Encode(stdoutEncoding, r.str, 9).err))
         /\ pc' = "except"
    ELSE /\ Q' = r.str
         /\ stdout' = Append(stdout, Msg("api key: ", "", r.str))
         /\ ret' = Some(r.str)
         /\ exc' = exc
         /\ pc' = "returned"

DecodeAndReturn ==
    /\ pc = "check_quote"
    /\ P # -1
    /\ steps' = Append(steps, "decode")
    /\ PrintAndReturn(Utf8Decode(Slice(V, O, P)))
    /\ UNCHANGED <<globals, environment, L, M, V, N, O, P, exitCode, stderr,
                   network, runNo, prev>>

(***************************************************************************)
(* Line 18: except H.RequestException as C: print to stderr; return        *)
(***************************************************************************)
ExceptRequestException ==
    /\ pc = "except"
    /\ IsRequestException(exc[1].cls)
    /\ stderr' = Append(stderr, Msg("network error: ", exc[1].msg, <<>>))
    /\ exc' = None
    /\ ret' = None
    /\ pc' = "returned"
    /\ UNCHANGED <<globals, environment, locals, exitCode, stdout, network, steps,
                   runNo, prev>>

(***************************************************************************)
(* Line 19: except Exception as C: print to stderr; return                 *)
(***************************************************************************)
\* Variant: the last handler names one class instead of Exception.
ExceptExceptionOnlyRuntimeError ==
    /\ pc = "except"
    /\ exc[1].cls = "RuntimeError"
    /\ stderr' = Append(stderr, Msg("error: ", exc[1].msg, <<>>))
    /\ exc' = None
    /\ ret' = None
    /\ pc' = "returned"
    /\ UNCHANGED <<globals, environment, locals, exitCode, stdout, network, steps,
                   runNo, prev>>

ExceptException ==
    /\ pc = "except"
    /\ ~IsRequestException(exc[1].cls)
    /\ stderr' = Append(stderr, Msg("error: ", exc[1].msg, <<>>))
    /\ exc' = None
    /\ ret' = None
    /\ pc' = "returned"
    /\ UNCHANGED <<globals, environment, locals, exitCode, stdout, network, steps,
                   runNo, prev>>

(***************************************************************************)
(* Lines 20-23: C = E(); exit 0 if C is truthy, else message and exit 1.   *)
(* A str is truthy iff it is not empty; None is falsy.                     *)
(***************************************************************************)
Truthy(r) == r # None /\ r[1] # <<>>

Main ==
    /\ pc = "returned"
    /\ IF Truthy(ret)
       THEN /\ exitCode' = 0
            /\ stderr' = stderr
       ELSE /\ exitCode' = 1
            /\ stderr' = Append(stderr, Msg("failed to extract api key", "", <<>>))
    /\ pc' = "exited"
    /\ UNCHANGED <<globals, environment, locals, exc, ret, stdout, network, steps,
                   runNo, prev>>

Next ==
    \/ Announce
    \/ Get
    \/ RaiseForStatus
    \/ Content
    \/ TryDecompress
    \/ ExceptZlibError
    \/ FindMarker
    \/ MarkerMissing
    \/ FindQuote
    \/ NoClosingQuote
    \/ DecodeAndReturn
    \/ ExceptRequestException
    \/ ExceptException
    \/ Main

Spec == Init /\ [][Next]_vars

(***************************************************************************)
(* The script is run again against a server that answers as before: a new  *)
(* process, whose standard output has some encoding, starts from the state *)
(* of line 1, and the result of the run that just exited is kept for       *)
(* comparison.                                                             *)
(***************************************************************************)
RunResult == [ret |-> ret, exitCode |-> exitCode, stdout |-> stdout,
              stderr |-> stderr]

Rerun ==
    /\ pc = "exited"
    /\ runNo < MaxRuns
    /\ runNo' = runNo + 1
    /\ prev' = Some(RunResult)
    /\ pc' = "start"
    /\ L' = NoResponse
    /\ M' = <<>>
    /\ V' = <<>>
    /\ N' = Unbound
    /\ O' = Unbound
    /\ P' = Unbound
    /\ Q' = <<>>
    /\ exc' = None
    /\ ret' = None
    /\ exitCode' = Unbound
    /\ stdout' = <<>>
    /\ stderr' = <<>>
    /\ calls' = 0
    /\ gets' = <<>>
    /\ steps' = <<>>
    /\ stdoutEncoding' \in Encodings
    /\ UNCHANGED <<globals, server>>

NextTwice == Next \/ Rerun

SpecTwice == Init /\ [][NextTwice]_vars

(***************************************************************************)
(* Vocabulary of the properties, stated on the buffers themselves and not  *)
(* through Find.                                                           *)
(***************************************************************************)
Done == pc = "exited"
Returned == pc \in {"returned", "exited"}

Attempted(step) == \E i \in 1..Len(steps) : steps[i] = step
Printed(log, text) == \E i \in 1..Len(log) : log[i].text = text

PipelineOrder == <<"get", "decompress", "find_marker", "find_quote", "decode">>
IsPrefix(s, t) == Len(s) <= Len(t) /\ \A i \in 1..Len(s) : s[i] = t[i]

OccursAt(buf, sub, i) ==
    /\ i + Len(sub) <= Len(buf)
    /\ SubSeq(buf, i + 1, i + Len(sub)) = sub

MarkerPositions(buf) == {i \in 0..Len(buf) : OccursAt(buf, G, i)}
ContainsMarker(buf) == MarkerPositions(buf) # {}
Least(S) == CHOOSE x \in S : \A y \in S : x <= y
\* 0-based index of the byte after the first occurrence of the marker
FirstMarkerEnd(buf) == Least(MarkerPositions(buf)) + 16
QuotePositions(buf, from) == {i \in from..(Len(buf) - 1) : buf[i + 1] = 34}
HasClosingQuote(buf) == QuotePositions(buf, FirstMarkerEnd(buf)) # {}
\* the bytes strictly between the first marker and the first quote after it
ValueBytes(buf) ==
    LET o == FirstMarkerEnd(buf)
        q == Least(QuotePositions(buf, o))
    IN  [k \in 1..(q - o) |-> buf[o + k]]

\* the call of requests.get returns a response
Answered == server.kind = "response" /\ Len(server.locations) <= RedirectLimit
\* standard output can encode the str s
Encodable(s) == stdoutEncoding = "utf-8" \/ \A k \in 1..Len(s) : s[k] < 128

\* what happened in this run
FetchSucceeded == Attempted("decompress")
DecompressionSucceeded == Attempted("find_marker")
MarkerFound == DecompressionSucceeded /\ ContainsMarker(V)
QuoteFollows == MarkerFound /\ HasClosingQuote(V)
ValueDecodes == QuoteFollows /\ Utf8Decode(ValueBytes(V)).ok
CredentialPrinted ==
    \E i \in 1..Len(stdout) :
        stdout[i].text = "api key: " /\ ret = Some(stdout[i].arg)

\* C1: a run whose fetch, decompression, marker search, quote search and
\* UTF-8 decoding all succeed prints the credential on standard output and
\* exits with code 0, whatever the length of the value.
C1_SuccessExitsZero ==
    (Done /\ ValueDecodes) => (CredentialPrinted /\ exitCode = 0)

\* C2: a run in which a step fails (get raises, too many redirects, error
\* status, bad stream, no marker, no closing quote, undecodable value,
\* unprintable credential line) writes at least one
\* diagnostic to standard error and exits with code 1, and every exception
\* raised inside E meets a handler of E: none escapes.
\* r is the decompression of the body
NoCredentialIn(r) ==
    \/ ~r.ok
    \/ ~ContainsMarker(r.data)
    \/ ~HasClosingQuote(r.data)
    \/ ~Utf8Decode(ValueBytes(r.data)).ok
    \/ ~Encodable(Utf8Decode(ValueBytes(r.data)).str)

AnyStepFails ==
    \/ ~Answered
    \/ server.status \in 400..599
    \/ NoCredentialIn(Decompress(server.content))

C2_FailureReported ==
    /\ (Done /\ AnyStepFails) => (Len(stderr) >= 1 /\ exitCode = 1)
    /\ (pc = "except") => ENABLED (ExceptRequestException \/ ExceptException)
    /\ (pc = "except_zlib") => ENABLED ExceptZlibError
    /\ Returned => exc = None

C2_Witness ==
    /\ Done
    /\ AnyStepFails
    /\ Printed(stderr, "error: ")
    /\ Attempted("decode")
    /\ exitCode = 1

\* C3 as stated: every response whose status is neither 200 nor 206 is
\* reported as a network error and its body is never decompressed.
C3_Not200Or206IsNetworkError ==
    (Done /\ Answered /\ server.status \notin {200, 206})
        => (Printed(stderr, "network error: ") /\ ~Attempted("decompress"))

\* C3 amended: every response whose status is in 400..599 is reported as a
\* network error and its body is never decompressed.
C3_ErrorStatusIsNetworkError ==
    (Done /\ Answered /\ server.status \in 400..599)
        => (Printed(stderr, "network error: ") /\ ~Attempted("decompress"))

C3_Witness ==
    /\ Done
    /\ Answered
    /\ server.status = 400
    /\ Decompress(server.content).ok
    /\ Printed(stderr, "network error: ")

\* C4: fail-fast ordering.  The steps run in the order get, decompress,
\* marker search, quote search, decode; decompression runs only after a
\* successful fetch and the searches only after a successful decompression;
\* once a step has failed no further step runs and no further progress
\* message is printed.
IsOutput(r) == r.ok /\ V = r.data
Failed == exc # None \/ stderr # <<>>

C4_FailFast ==
    /\ [](IsPrefix(steps, PipelineOrder))
    /\ [](FetchSucceeded =>
            (L.kind = "response" /\ L.status \notin 400..599))
    /\ []((pc = "find_marker" \/ DecompressionSucceeded) =>
            IsOutput(Decompress(M)))
    /\ [][Failed => (steps' = steps /\ stdout' = stdout)]_vars

C4_Witness ==
    /\ Done
    /\ Printed(stderr, "decompression error: ")
    /\ steps = <<"get", "decompress">>
    /\ Len(stdout) = 3
    /\ ContainsMarker(M)

\* C5: when the decompressed buffer holds the marker and a quote after it,
\* the value E returns is exactly the bytes strictly between the end of the
\* first marker occurrence and the first quote at or after it, decoded and
\* otherwise untouched; it holds no quote, and later marker occurrences do
\* not change it.  E returns it whenever those bytes decode and the
\* credential line can be printed.
C5_ExactValue ==
    (Returned /\ QuoteFollows) =>
        /\ (ValueDecodes /\ Encodable(Utf8Decode(ValueBytes(V)).str)) =>
               ret = Some(Utf8Decode(ValueBytes(V)).str)
        /\ ret # None =>
            /\ ret = Some(Utf8Decode(ValueBytes(V)).str)
            /\ Q = ret[1]
            /\ \A i \in 1..Len(ret[1]) : ret[1][i] # 34

C5_Witness ==
    /\ Done
    /\ Cardinality(MarkerPositions(V)) = 2
    /\ ret = Some(<<92>>)

\* C6: when the decompressed buffer does not hold the marker, the run prints
\* the marker-not-found diagnostic, E returns no credential, the quote
\* search is never performed and the exit code is 1.
C6_MarkerAbsent ==
    /\ (Returned /\ DecompressionSucceeded /\ ~ContainsMarker(V)) =>
           /\ Printed(stderr, "couldnt find string ")
           /\ ret = None
    /\ (DecompressionSucceeded /\ ~ContainsMarker(V)) =>
           ~Attempted("find_quote")
    /\ (Done /\ DecompressionSucceeded /\ ~ContainsMarker(V)) => exitCode = 1

C6_Witness ==
    /\ Done
    /\ DecompressionSucceeded
    /\ ~ContainsMarker(V)
    /\ QuotePositions(V, 0) # {}
    /\ Printed(stderr, "couldnt find string ")

\* C7: when the decompressed buffer holds the marker but no quote at or
\* after the end of its first occurrence, the run prints "no closing quote",
\* E returns no credential and the exit code is 1; the diagnostic is printed
\* in no other case.
C7_Unterminated ==
    /\ (Returned /\ MarkerFound /\ ~HasClosingQuote(V)) =>
           (Printed(stderr, "no closing quote") /\ ret = None)
    /\ (Done /\ MarkerFound /\ ~HasClosingQuote(V)) => exitCode = 1
    /\ Printed(stderr, "no closing quote") =>
           (MarkerFound /\ ~HasClosingQuote(V))

C7_Witness ==
    /\ Done
    /\ Printed(stderr, "no closing quote")
    /\ N > 0
    /\ Len(V) > N + 16
    /\ exitCode = 1

\* C8: no partial success.  A run that exits with code 1 produced no value
\* and printed no credential line; a run that exits with code 0 completed
\* the pipeline and printed the credential; exit code 0 if and only if E
\* reached its final return.
C8_NoPartialSuccess ==
    Done =>
        /\ exitCode = 1 => (ret = None /\ ~Printed(stdout, "api key: "))
        /\ exitCode = 0 => (ret # None /\ CredentialPrinted)
        /\ exitCode = 0 <=> ret # None

\* C9: two runs that receive the same fetch outcome end with the same
\* result, whatever else differs between them: the same return value of E,
\* the same exit code and the same lines on standard output and standard
\* error.
C9_Deterministic ==
    (Done /\ prev # None) => prev = Some(RunResult)

\* C10 as stated: a run issues exactly one GET, before every other pipeline
\* step, to the fixed URL with Range: bytes=82926761-83010957 and timeout 30;
\* the request is never issued again after a failure, and the globals URL,
\* offset and length keep their values.
TheRequest ==
    [url |-> "https://curseforge.overwolf.com/electron/linux/CurseForge-0.198.1-21.AppImage",
     range |-> "bytes=82926761-83010957",
     timeout |-> 30]

C10_OneRangedGet ==
    /\ [](Len(gets) <= 1)
    /\ [](pc \notin {"start", "get"} => gets = <<TheRequest>>)
    /\ [](steps # <<>> => steps[1] = "get")
    /\ [][Failed => gets' = gets]_vars
    /\ [][J' = J /\ D' = D /\ K' = K]_vars
    /\ [](D = 82926761 /\ K = 84196)

\* C10 amended: a run calls requests.get exactly once, before every other
\* pipeline step; the call sends one GET to the fixed URL with Range:
\* bytes=82926761-83010957 and timeout 30 and, for each redirect it is
\* answered, one more GET to the redirect's target with the same Range and
\* timeout, 31 GETs at most; nothing is sent after a failure, and the globals
\* URL, offset and length keep their values.
IsRedirectOf(g, i) ==
    /\ g.url = server.locations[i - 1]
    /\ g.range = "bytes=82926761-83010957"
    /\ g.timeout = 30

C10_OneCallFollowingRedirects ==
    /\ [](calls <= 1)
    /\ [](pc \notin {"start", "get"} =>
             /\ calls = 1
             /\ gets # <<>>
             /\ gets[1] = TheRequest
             /\ Len(gets) <= Len(server.locations) + 1
             /\ Len(gets) <= 31
             /\ \A i \in 2..Len(gets) : IsRedirectOf(gets[i], i))
    /\ [](steps # <<>> => steps[1] = "get")
    /\ [][Failed => (gets' = gets /\ calls' = calls)]_vars
    /\ [][J' = J /\ D' = D /\ K' = K]_vars
    /\ [](D = 82926761 /\ K = 84196)

C10_Witness ==
    /\ Done
    /\ calls = 1
    /\ Len(gets) = 3
    /\ Printed(stderr, "network error: ")
    /\ steps = <<"get">>

====
